---- MODULE Spec2Model ----
(***************************************************************************)
(* Model of CrosswordCreator (generate.py): the domain store, node          *)
(* consistency, revise, AC-3 and solve().                                   *)
(*                                                                          *)
(* A word is a sequence of letters (letters are small integers); Python's   *)
(* 0-based word[k] is word[k+1] here.  A domain is a Python list, i.e. a    *)
(* sequence: generate.py indexes it (self.domains[y][0]) and removes from   *)
(* it while iterating over it, so its order is part of the state.           *)
(***************************************************************************)
EXTENDS Integers, Sequences, FiniteSets, TLC

\* ------------------------------------------------------------------ bounds
MaxWords == 3
MaxCalls == 2
MaxArcs  == 1
MaxSearchWords == 2

\* ------------------------------------------------------- the puzzle model
Vars == {1, 2, 3}

NoOverlap == <<-1, -1>>

WordPool == { <<1, 1>>, <<1, 2>>, <<2, 1>>, <<1, 1, 2>>, <<2, 1, 1>> }

Range(s) == { s[k] : k \in 1..Len(s) }

\* Lists of pairwise distinct elements of S, of length at most n.
DistinctSeqs(S, n) ==
    UNION { { s \in [1..k -> S] : \A a, b \in 1..k : a # b => s[a] # s[b] }
            : k \in 0..n }

\* Variable 1 may cross variable 2 and variable 3; 2 and 3 are parallel.
Crossings12 == { <<0, 0>> }
Crossings13 == { NoOverlap, <<1, 0>>, <<2, 0>> }

Lengths == { <<2, 2, 2>>, <<2, 3, 2>>, <<3, 3, 3>> }

Overlaps(c12, c13) ==
    [ p \in { q \in Vars \X Vars : q[1] # q[2] } |->
        IF p = <<1, 2>> THEN c12
        ELSE IF p = <<2, 1>> THEN <<c12[2], c12[1]>>
        ELSE IF p = <<1, 3>> THEN c13
        ELSE IF p = <<3, 1>> THEN <<c13[2], c13[1]>>
        ELSE NoOverlap ]

Puzzles ==
    { [length |-> l, overlaps |-> Overlaps(c12, c13)] :
        l \in Lengths, c12 \in Crossings12, c13 \in Crossings13 }

WellFormed(p) ==
    \A q \in DOMAIN p.overlaps :
        p.overlaps[q] # NoOverlap =>
            /\ p.overlaps[q][1] < p.length[q[1]]
            /\ p.overlaps[q][2] < p.length[q[2]]

VARIABLES crossword, words, domains, arcs, assignment,
          pc, call, entry, last, prev, calls, query

vars == <<crossword, words, domains, arcs, assignment,
          pc, call, entry, last, prev, calls, query>>

neighbors(x) ==
    { y \in Vars \ {x} : crossword.overlaps[<<x, y>>] # NoOverlap }

\* ------------------------------------------------------- list primitives
RECURSIVE ListRemoveFrom(_, _, _)
ListRemoveFrom(s, w, k) ==
    IF k > Len(s) THEN s
    ELSE IF s[k] = w
         THEN SubSeq(s, 1, k - 1) \o SubSeq(s, k + 1, Len(s))
         ELSE ListRemoveFrom(s, w, k + 1)

\* list.remove(w): deletes the first element equal to w.
ListRemove(s, w) == ListRemoveFrom(s, w, 1)

\* ------------------------------------------------------ node consistency
\* The inner loop of enforce_node_consistency: a list iterator at position
\* k over a list that the loop body shortens.
RECURSIVE NodeLoop(_, _, _)
NodeLoop(dom, len, k) ==
    IF k > Len(dom) THEN dom
    ELSE IF Len(dom[k]) # len
         THEN NodeLoop(ListRemove(dom, dom[k]), len, k + 1)
         ELSE NodeLoop(dom, len, k + 1)

\* Mutant: the domains are rebuilt from the full word list instead of being
\* filtered in place.
NodeConsistentFromWords(doms) ==
    [ v \in Vars |-> NodeLoop(words, crossword.length[v], 1) ]

\* enforce_node_consistency on the domains doms (lines 103-108).
NodeConsistent(doms) ==
    [ v \in Vars |-> NodeLoop(doms[v], crossword.length[v], 1) ]

\* ---------------------------------------------------------------- revise
\* Mutant: word_x conflicts as soon as one word of y's domain does not
\* match it, instead of when none matches.
RECURSIVE ConflictWithAny(_, _, _, _, _)
ConflictWithAny(word_x, dy, overlap_x, overlap_y, k) ==
    IF k > Len(dy) THEN "no"
    ELSE IF overlap_x + 1 > Len(word_x) \/ overlap_y + 1 > Len(dy[k])
         THEN "IndexError"
         ELSE IF word_x[overlap_x + 1] = dy[k][overlap_y + 1] /\ word_x # dy[k]
              THEN ConflictWithAny(word_x, dy, overlap_x, overlap_y, k + 1)
              ELSE "yes"

\* Inner loop of revise (lines 136-142): does word_x conflict with every
\* word of y's domain?  "no" on the break, "yes" when the loop runs out,
\* "IndexError" when an overlap offset lies beyond a word.
RECURSIVE Conflict(_, _, _, _, _)
Conflict(word_x, dy, overlap_x, overlap_y, k) ==
    IF k > Len(dy) THEN "yes"
    ELSE IF overlap_x + 1 > Len(word_x) \/ overlap_y + 1 > Len(dy[k])
         THEN "IndexError"
         ELSE IF word_x[overlap_x + 1] = dy[k][overlap_y + 1] /\ word_x # dy[k]
              THEN "no"
              ELSE Conflict(word_x, dy, overlap_x, overlap_y, k + 1)

\* Outer loop of revise (lines 133-146): a list iterator at position k over
\* x's domain, which the loop body shortens.
RECURSIVE ReviseLoop(_, _, _, _, _, _)
ReviseLoop(dx, dy, overlap_x, overlap_y, k, revision) ==
    IF k > Len(dx)
    THEN [dom |-> dx, revision |-> revision, fault |-> "none"]
    ELSE LET conflict == Conflict(dx[k], dy, overlap_x, overlap_y, 1) IN
         IF conflict = "IndexError"
         THEN [dom |-> dx, revision |-> revision, fault |-> "IndexError"]
         ELSE IF conflict = "yes"
              THEN ReviseLoop(ListRemove(dx, dx[k]), dy,
                              overlap_x, overlap_y, k + 1, TRUE)
              ELSE ReviseLoop(dx, dy, overlap_x, overlap_y, k + 1, revision)

\* The else branch of revise (lines 147-152): x and y do not overlap.
ReviseNoOverlap(dx, dy) ==
    IF Len(dy) = 1 /\ dy[1] \in Range(dx)
    THEN [dom |-> ListRemove(dx, dy[1]), revision |-> TRUE, fault |-> "none"]
    ELSE [dom |-> dx, revision |-> FALSE, fault |-> "none"]

\* revise(x, y) on the domains doms: x's new domain, the returned flag and
\* the exception raised, if any.
revise(x, y, doms) ==
    IF crossword.length[x] # crossword.length[y]
    THEN [dom |-> doms[x], revision |-> FALSE, fault |-> "none"]
    ELSE LET overlap == crossword.overlaps[<<x, y>>] IN
         IF overlap # NoOverlap
         THEN ReviseLoop(doms[x], doms[y], overlap[1], overlap[2], 1, FALSE)
         ELSE ReviseNoOverlap(doms[x], doms[y])

\* ------------------------------------------------------------------- ac3
AllArcs == { a \in Vars \X Vars : a[1] # a[2] /\ a[2] \in neighbors(a[1]) }

\* The default worklist (lines 168-172): the arcs grouped by their first
\* variable; the iteration order of the two sets is not fixed.
DefaultArcs ==
    { s \in [1..Cardinality(AllArcs) -> AllArcs] :
        /\ \A a, b \in DOMAIN s : a # b => s[a] # s[b]
        /\ \A a, b, c \in DOMAIN s :
              (a < b /\ b < c /\ s[a][1] = s[c][1]) => s[b][1] = s[a][1] }

\* Mutant: the neighbors of x other than y, as a set.
NeighborsRemoveSet(x, y) ==
    [ iterable |-> TRUE, elems |-> neighbors(x) \ {y},
      fault |-> IF y \in neighbors(x) THEN "none" ELSE "KeyError" ]

\* self.crossword.neighbors(x).remove(y) (line 185): remove() raises
\* KeyError when y is not in the set; otherwise it mutates the fresh
\* neighbor set and returns None, which the for loop of line 186 cannot
\* iterate over.
NeighborsRemove(x, y) ==
    [ iterable |-> FALSE, elems |-> {},
      fault |-> IF y \in neighbors(x) THEN "none" ELSE "KeyError" ]

Bool(b) == IF b THEN "True" ELSE "False"

NoCall == [op |-> "none", arg |-> <<>>, kind |-> "return", val |-> "None"]

EmptyAssignment == [v \in {} |-> <<>>]

Init ==
    /\ crossword \in { p \in Puzzles : WellFormed(p) }
    /\ words \in DistinctSeqs(WordPool, MaxWords)
    /\ domains = [v \in Vars |-> words]
    /\ arcs = <<>>
    /\ assignment = EmptyAssignment
    /\ pc = "idle"
    /\ call = "none"
    /\ entry = domains
    /\ last = NoCall
    /\ prev = NoCall
    /\ calls = 0
    /\ query = NoCall

\* A top-level call that may change the domains begins; the record of the
\* last read-only call is dropped.
Enter ==
    /\ pc = "idle"
    /\ calls < MaxCalls
    /\ calls' = calls + 1
    /\ entry' = domains
    /\ query' = NoCall

\* A top-level call ends by returning val or by raising val.
Leave(op, arg, kind, val) ==
    /\ last' = [op |-> op, arg |-> arg, kind |-> kind, val |-> val]
    /\ prev' = last
    /\ pc' = IF kind = "raise" THEN "crashed" ELSE "idle"
    /\ call' = "none"

EnforceNodeConsistency ==
    /\ Enter
    /\ domains' = NodeConsistent(domains)
    /\ Leave("enforce_node_consistency", <<>>, "return", "None")
    /\ UNCHANGED <<crossword, words, arcs, assignment>>

Revise ==
    \E x \in Vars, y \in Vars :
        /\ x # y
        /\ Enter
        /\ LET r == revise(x, y, domains) IN
             /\ domains' = [domains EXCEPT ![x] = r.dom]
             /\ IF r.fault # "none"
                THEN Leave("revise", <<x, y>>, "raise", r.fault)
                ELSE Leave("revise", <<x, y>>, "return", Bool(r.revision))
        /\ UNCHANGED <<crossword, words, arcs, assignment>>

\* ac3() with the default worklist.
Ac3 ==
    /\ Enter
    /\ arcs' \in DefaultArcs
    /\ pc' = "ac3"
    /\ call' = "ac3"
    /\ UNCHANGED <<crossword, words, domains, assignment, last, prev>>

\* ac3(arcs) with a worklist supplied by the caller.
Ac3Arcs ==
    /\ Enter
    /\ arcs' \in UNION { [1..n -> { a \in Vars \X Vars : a[1] # a[2] }]
                          : n \in 0..MaxArcs }
    /\ pc' = "ac3"
    /\ call' = "ac3_arcs"
    /\ UNCHANGED <<crossword, words, domains, assignment, last, prev>>

\* ac3 returns val: to the client, or into solve, which drops the value
\* (line 93) and goes on to backtrack (line 94).
Ac3Finish(val) ==
    IF call = "solve"
    THEN /\ pc' = "search"
         /\ UNCHANGED <<call, last, prev>>
    ELSE Leave(call, <<>>, "return", val)

\* ac3 raises: the exception leaves ac3, and solve when it is the caller.
Ac3Raise(val) == Leave(call, <<>>, "raise", val)

\* One iteration of the while loop of ac3 (lines 176-187).
Ac3Step ==
    /\ pc = "ac3"
    /\ arcs # <<>>
    /\ LET x == Head(arcs)[1]
           y == Head(arcs)[2]
           r == revise(x, y, domains)
           rest == Tail(arcs)
       IN
         /\ domains' = [domains EXCEPT ![x] = r.dom]
         /\ IF r.fault # "none"
            THEN /\ arcs' = rest
                 /\ Ac3Raise(r.fault)
            ELSE IF ~r.revision
            THEN /\ arcs' = rest
                 /\ UNCHANGED <<pc, call, last, prev>>
            ELSE IF Len(r.dom) = 0
            THEN /\ arcs' = rest
                 /\ Ac3Finish("False")
            ELSE IF NeighborsRemove(x, y).fault # "none"
            THEN /\ arcs' = rest
                 /\ Ac3Raise(NeighborsRemove(x, y).fault)
            ELSE IF ~NeighborsRemove(x, y).iterable
            THEN /\ arcs' = rest
                 /\ Ac3Raise("TypeError")
            ELSE /\ \E more \in DistinctSeqs(NeighborsRemove(x, y).elems,
                                             Cardinality(Vars)) :
                       /\ Range(more) = NeighborsRemove(x, y).elems
                       /\ arcs' = rest \o [k \in DOMAIN more |-> <<x, more[k]>>]
                 /\ UNCHANGED <<pc, call, last, prev>>
    /\ UNCHANGED <<crossword, words, assignment, entry, calls, query>>

\* The while loop of ac3 ends (lines 176, 189).
Ac3Return ==
    /\ pc = "ac3"
    /\ arcs = <<>>
    /\ Ac3Finish("True")
    /\ UNCHANGED <<crossword, words, domains, arcs, assignment, entry, calls,
                   query>>

\* solve() up to the loop of ac3: enforce_node_consistency(), then ac3()
\* builds the default worklist.
Solve ==
    /\ Enter
    /\ domains' = NodeConsistent(domains)
    /\ arcs' \in DefaultArcs
    /\ pc' = "ac3"
    /\ call' = "solve"
    /\ UNCHANGED <<crossword, words, assignment, last, prev>>

\* backtrack(assignment) (lines 285-294).
backtrack(a) == [kind |-> "raise", val |-> "NotImplementedError"]

\* solve() calls backtrack(dict()) and returns what it returns (line 94).
Backtrack ==
    /\ pc = "search"
    /\ call = "solve"
    /\ assignment' = EmptyAssignment
    /\ LET r == backtrack(EmptyAssignment) IN
         Leave("solve", <<>>, r.kind, r.val)
    /\ UNCHANGED <<crossword, words, domains, arcs, entry, calls, query>>

Next ==
    \/ EnforceNodeConsistency
    \/ Revise
    \/ Ac3
    \/ Ac3Arcs
    \/ Ac3Step
    \/ Ac3Return
    \/ Solve
    \/ Backtrack

Spec == Init /\ [][Next]_vars

TypeOK ==
    /\ pc \in {"idle", "ac3", "search", "crashed"}
    /\ call \in {"none", "ac3", "ac3_arcs", "solve"}
    /\ calls \in 0..MaxCalls
    /\ \A v \in Vars : Range(domains[v]) \subseteq WordPool

\* ------------------------------------------------ the search's helpers
\* Python's None as the value of an assignment entry.
None == <<>>

\* The ways of listing the set S, for the iteration order of a set or dict.
Orderings(S) == { o \in DistinctSeqs(S, Cardinality(S)) : Range(o) = S }

\* The dicts from some of the variables to values of Vals.
Assignments(Vals) == UNION { [S -> Vals] : S \in SUBSET Vars }

\* One word, for the assignments given to the functions that read only
\* the keys of the assignment or test its values against None.
OneWord == IF words = <<>> THEN {} ELSE {words[1]}

\* The two directions of listing the variables, which give every relative
\* order of the (at most two) neighbors of a variable.
NeighborOrders ==
    { o \in Orderings(Vars) :
        \/ \A k \in 1..(Len(o) - 1) : o[k] < o[k + 1]
        \/ \A k \in 1..(Len(o) - 1) : o[k] > o[k + 1] }

\* assignment_complete(assignment) (lines 197-201).
assignment_complete(a) == Bool(\A var \in DOMAIN a : a[var] # None)

\* The loop over the neighbors ns of var in consistent (lines 215-221).
RECURSIVE ConsistentNeighbors(_, _, _, _)
ConsistentNeighbors(a, var, ns, j) ==
    IF j > Len(ns) THEN "ok"
    ELSE LET neighbor == ns[j]
             overlap == crossword.overlaps[<<var, neighbor>>]
         IN  IF overlap[1] + 1 > Len(a[var]) THEN "IndexError"
             ELSE IF neighbor \notin DOMAIN a THEN "KeyError"
             ELSE IF a[neighbor] = None THEN "TypeError"
             ELSE IF overlap[2] + 1 > Len(a[neighbor]) THEN "IndexError"
             ELSE IF a[var][overlap[1] + 1] # a[neighbor][overlap[2] + 1]
                  THEN "False"
                  ELSE ConsistentNeighbors(a, var, ns, j + 1)

\* The loop over the keys of the assignment in consistent (lines 208-223);
\* keys lists the keys and norder the variables in iteration order.
RECURSIVE ConsistentLoop(_, _, _, _)
ConsistentLoop(a, keys, norder, k) ==
    IF k > Len(keys) THEN "True"
    ELSE LET var == keys[k]
             ns == SelectSeq(norder, LAMBDA z : z \in neighbors(var))
         IN  IF a[var] = None THEN "TypeError"
             ELSE IF Len(a[var]) # crossword.length[var] THEN "False"
             ELSE LET r == ConsistentNeighbors(a, var, ns, 1) IN
                  IF r = "ok" THEN ConsistentLoop(a, keys, norder, k + 1)
                  ELSE r

\* consistent(assignment): "True", "False" or the exception raised.
consistent(a, keys, norder) == ConsistentLoop(a, keys, norder, 1)

\* No variable, for least_domain_var and equal_domain_var (lines 259-260).
NoVar == 0

\* The loop of select_unassigned_variable (lines 264-273) over the
\* variables in the order vs, from position k.
RECURSIVE SelectLoop(_, _, _, _, _, _)
SelectLoop(a, vs, k, least_domain_var, equal_domain_var, least_domain_count) ==
    IF k > Len(vs)
    THEN [least |-> least_domain_var, equal |-> equal_domain_var]
    ELSE LET var == vs[k] IN
         IF var \in DOMAIN a
         THEN SelectLoop(a, vs, k + 1, least_domain_var, equal_domain_var,
                         least_domain_count)
         ELSE IF Len(domains[var]) < least_domain_count
         THEN SelectLoop(a, vs, k + 1, var, NoVar, Len(domains[var]))
         ELSE IF Len(domains[var]) = least_domain_count
         THEN SelectLoop(a, vs, k + 1, least_domain_var, var,
                         least_domain_count)
         ELSE SelectLoop(a, vs, k + 1, least_domain_var, equal_domain_var,
                         least_domain_count)

\* select_unassigned_variable(assignment) (lines 259-281).  The neighbor
\* query on None (line 277) either raises KeyError or finds no neighbor:
\* noneRaises says which.
select_unassigned_variable(a, vs, noneRaises) ==
    LET r == SelectLoop(a, vs, 1, NoVar, NoVar, 0) IN
    IF r.equal # NoVar
    THEN IF r.least = NoVar /\ noneRaises
         THEN [kind |-> "raise", val |-> "KeyError"]
         ELSE IF Cardinality(neighbors(r.equal)) >
                    (IF r.least = NoVar THEN 0
                     ELSE Cardinality(neighbors(r.least)))
              THEN [kind |-> "return", val |-> r.equal]
              ELSE [kind |-> "return", val |-> r.least]
    ELSE [kind |-> "return", val |-> r.least]

\* Lines 241-243 evaluate var_domain[overlap_var] != neighbor_domain[...]
\* for every word of every unassigned neighbor's domain.
Compared(var, a) ==
    { <<n, u>> \in Vars \X WordPool :
        n \in neighbors(var) /\ n \notin DOMAIN a /\ u \in Range(domains[n]) }

\* conflict_count of the word var_domain of var (lines 234-243).
ConflictCount(var, a, var_domain) ==
    Cardinality({ c \in Compared(var, a) :
        var_domain[crossword.overlaps[<<var, c[1]>>][1] + 1]
            # c[2][crossword.overlaps[<<var, c[1]>>][2] + 1] })

\* Python's sorted (line 247): stable insertion of w into the sorted list.
RECURSIVE SortedInsert(_, _, _, _)
SortedInsert(sorted, w, key, k) ==
    IF k > Len(sorted) \/ key[w] < key[sorted[k]]
    THEN SubSeq(sorted, 1, k - 1) \o <<w>> \o SubSeq(sorted, k, Len(sorted))
    ELSE SortedInsert(sorted, w, key, k + 1)

RECURSIVE Sorted(_, _, _)
Sorted(list, key, n) ==
    IF n = 0 THEN <<>>
    ELSE SortedInsert(Sorted(list, key, n - 1), list[n], key, 1)

\* order_domain_values(var, assignment) (lines 232-247).
order_domain_values(var, a) ==
    IF \E w \in Range(domains[var]) : \E c \in Compared(var, a) :
          \/ crossword.overlaps[<<var, c[1]>>][1] + 1 > Len(w)
          \/ crossword.overlaps[<<var, c[1]>>][2] + 1 > Len(c[2])
    THEN [kind |-> "raise", val |-> "IndexError"]
    ELSE LET rules_out == [ w \in Range(domains[var]) |->
                               ConflictCount(var, a, w) ]
         IN  [ kind |-> "return",
               val |-> Sorted(domains[var], rules_out, Len(domains[var])) ]

\* A read-only call is taken from a state without the record of one: after
\* another read-only call it would reach the same states, the record being
\* all that differs.
QueryReady == pc = "idle" /\ query = NoCall

\* A read-only call: it records its argument and outcome, nothing else.
Query(op, arg, kind, val) ==
    /\ query' = [op |-> op, arg |-> arg, kind |-> kind, val |-> val]
    /\ UNCHANGED <<crossword, words, domains, arcs, assignment,
                   pc, call, entry, last, prev, calls>>

AssignmentComplete ==
    /\ QueryReady
    /\ \E a \in Assignments(OneWord \cup {None}) :
        Query("assignment_complete", <<a>>, "return", assignment_complete(a))

Consistent ==
    /\ QueryReady
    /\ \E a \in Assignments(Range(words)) :
        \E keys \in Orderings(DOMAIN a), norder \in NeighborOrders :
            LET r == consistent(a, keys, norder) IN
            Query("consistent", <<a>>,
                  IF r \in {"True", "False"} THEN "return" ELSE "raise", r)

SelectUnassignedVariable ==
    /\ QueryReady
    /\ \E a \in Assignments(OneWord) :
        \E vs \in Orderings(Vars), noneRaises \in BOOLEAN :
            LET r == select_unassigned_variable(a, vs, noneRaises) IN
            Query("select_unassigned_variable", <<a>>, r.kind, r.val)

OrderDomainValues ==
    /\ QueryReady
    /\ \E var \in Vars, a \in Assignments(OneWord) :
        LET r == order_domain_values(var, a) IN
        Query("order_domain_values", <<var, a>>, r.kind, r.val)

\* The search's helpers, called on the initial domains and on those that
\* node consistency leaves.
NextSearch ==
    \/ EnforceNodeConsistency
    \/ AssignmentComplete
    \/ Consistent
    \/ SelectUnassignedVariable
    \/ OrderDomainValues

\* The helpers are exercised on the shorter word lists.
InitSearch == Init /\ Len(words) <= MaxSearchWords

SpecSearch == InitSearch /\ [][NextSearch]_vars

\* ------------------------------------------------------------ properties
Returned(op, val) == last.op = op /\ last.kind = "return" /\ last.val = val

\* Python's word_x[i] == word_y[j], false when an offset is out of range.
SameChar(w, i, u, j) ==
    i + 1 <= Len(w) /\ j + 1 <= Len(u) /\ w[i + 1] = u[j + 1]

\* a is a complete assignment meeting the length, overlap and no-reuse
\* constraints of the puzzle.
ValidComplete(a) ==
    /\ DOMAIN a = Vars
    /\ \A v \in Vars : Len(a[v]) = crossword.length[v]
    /\ \A x, y \in Vars : x # y =>
          /\ a[x] # a[y]
          /\ crossword.overlaps[<<x, y>>] # NoOverlap =>
                SameChar(a[x], crossword.overlaps[<<x, y>>][1],
                         a[y], crossword.overlaps[<<x, y>>][2])

\* The puzzle had a solution within the domains the running or last call
\* started from.
Solvable ==
    \E a \in [Vars -> WordPool] :
        /\ \A v \in Vars : a[v] \in Range(entry[v])
        /\ ValidComplete(a)

SomeDomainEmpty == \E v \in Vars : domains[v] = <<>>

\* C1: a finished solve() has returned a complete assignment or None; it
\* has not ended in a raised exception.
C1_SolveTotal ==
    last.op = "solve" =>
        /\ last.kind = "return"
        /\ last.val \in {"None", "assignment"}
        /\ last.val = "assignment" => DOMAIN assignment = Vars

\* C3: when the puzzle has a valid complete assignment, a finished solve()
\* has returned a valid complete assignment.
C3_CompleteWhenSolvable ==
    (last.op = "solve" /\ Solvable) =>
        /\ Returned("solve", "assignment")
        /\ ValidComplete(assignment)

\* C5: when propagation has left a domain empty, solve() does not enter
\* the backtracking search and returns None.
C5_NoSearchAfterEmptyDomain ==
    /\ pc = "search" => ~SomeDomainEmpty
    /\ (last.op = "solve" /\ SomeDomainEmpty) => Returned("solve", "None")

\* C6: after enforce_node_consistency() every domain holds exactly the
\* words it held before whose length is the variable's length.
C6_NodeConsistencyExact ==
    last.op = "enforce_node_consistency" =>
        \A v \in Vars :
            Range(domains[v]) =
                { w \in Range(entry[v]) : Len(w) = crossword.length[v] }

\* C7: after ac3() with the default worklist returned True, for every arc
\* (x, y) of neighbors revise(x, y) removes nothing and returns False, and
\* every word of x's domain has a word of y's domain with the same
\* character at the overlap.
C7_FixedPoint ==
    Returned("ac3", "True") =>
        \A x \in Vars : \A y \in neighbors(x) :
            /\ revise(x, y, domains) =
                  [dom |-> domains[x], revision |-> FALSE, fault |-> "none"]
            /\ \A w \in Range(domains[x]) : \E u \in Range(domains[y]) :
                  SameChar(w, crossword.overlaps[<<x, y>>][1],
                           u, crossword.overlaps[<<x, y>>][2])

\* C8: every ac3 call that has ended, whatever its initial worklist, ended
\* by returning: True with the worklist empty, or False.
C8_Ac3EndsByReturning ==
    last.op \in {"ac3", "ac3_arcs"} =>
        \/ Returned(last.op, "True") /\ arcs = <<>>
        \/ Returned(last.op, "False")

\* C9: an ac3() that directly follows an ac3() that returned True removes
\* no word from any domain and returns True.
C9_Ac3Idempotent ==
    (prev.op = "ac3" /\ prev.kind = "return" /\ prev.val = "True"
        /\ last.op = "ac3") =>
        /\ Returned("ac3", "True")
        /\ domains = entry

C9_Witness ==
    /\ prev.op = "ac3" /\ prev.kind = "return" /\ prev.val = "True"
    /\ Returned("ac3", "True")
    /\ AllArcs # {}
    /\ \A v \in Vars : Len(domains[v]) >= 2

\* C10: no step inserts a word: after every step each domain is a subset
\* of what it was before the step and of the initial word list.
C10_DomainsOnlyShrink ==
    [][\A v \in Vars :
          /\ Range(domains'[v]) \subseteq Range(domains[v])
          /\ Range(domains'[v]) \subseteq Range(words')]_vars

C10_Witness ==
    /\ last.op \in {"enforce_node_consistency", "revise", "ac3", "ac3_arcs"}
    /\ prev.op \in {"enforce_node_consistency", "revise", "ac3", "ac3_arcs"}
    /\ \E v \in Vars : Len(domains[v]) < Len(entry[v])
    /\ \E v \in Vars : Len(entry[v]) < Len(words)

\* The words of x's domain dx that have a word in y's domain dy with the
\* same character at the overlap (i, j).
Supported(dx, dy, i, j) ==
    { w \in Range(dx) : \E u \in Range(dy) : SameChar(w, i, u, j) }

\* C11: while ac3 is still running it has emptied no domain (it returns
\* False in the step that empties one), and when it has returned True the
\* worklist is empty and no domain is empty.
C11_Ac3ResultMeaning ==
    /\ (pc = "ac3" /\ call \in {"ac3", "ac3_arcs"}) =>
          \A v \in Vars : domains[v] = <<>> => entry[v] = <<>>
    /\ (last.op \in {"ac3", "ac3_arcs"} /\ Returned(last.op, "True")) =>
          arcs = <<>> /\ ~SomeDomainEmpty

\* y's domain dy is a single word that is also in x's domain dx: the case
\* of the same-word exclusion.
SameWordCase(dx, dy) == Len(dy) = 1 /\ dy[1] \in Range(dx)

\* C12: revise(x, y) on two variables with a defined overlap returns
\* without fault, leaves in x's domain exactly the words that have a word
\* of y's domain with the same character at the overlap, changes no other
\* domain, and returns True iff it removed a word.  (Stated outside the
\* case of the same-word exclusion, which C14 is about.)
C12_ReviseExact ==
    (last.op = "revise"
        /\ crossword.overlaps[<<last.arg[1], last.arg[2]>>] # NoOverlap
        /\ ~SameWordCase(entry[last.arg[1]], entry[last.arg[2]])) =>
        LET x == last.arg[1]
            y == last.arg[2]
            o == crossword.overlaps[<<x, y>>]
        IN  /\ last.kind = "return"
            /\ Range(domains[x]) = Supported(entry[x], entry[y], o[1], o[2])
            /\ \A v \in Vars \ {x} : domains[v] = entry[v]
            /\ last.val = Bool(Range(domains[x]) # Range(entry[x]))

\* C13: a step of ac3 that pops (x, y), in which revise(x, y) removed a
\* word and left x's domain non-empty, keeps ac3 running and appends to
\* the rest of the worklist exactly the arcs (x, z), z a neighbor of x
\* other than y.
C13_RequeueNeighbors ==
    [][(pc = "ac3" /\ arcs # <<>>) =>
         LET x == Head(arcs)[1]
             y == Head(arcs)[2]
             r == revise(x, y, domains)
         IN  (r.fault = "none" /\ r.revision /\ r.dom # <<>>) =>
                /\ pc' = "ac3"
                /\ Len(arcs') =
                      Len(arcs) - 1 + Cardinality(neighbors(x) \ {y})
                /\ SubSeq(arcs', 1, Len(arcs) - 1) = Tail(arcs)
                /\ { arcs'[k] : k \in Len(arcs)..Len(arcs') } =
                      { <<x, z>> : z \in neighbors(x) \ {y} }]_vars

\* C14: revise(x, y) called when y's domain is the single word w and w is
\* in x's domain removes w from x's domain and returns True, with or
\* without an overlap; when y's domain has more than one word, a word of
\* x that also occurs in y's domain and is not unsupported stays.
C14_SameWordExclusion ==
    last.op = "revise" =>
        LET x == last.arg[1]
            y == last.arg[2]
            o == crossword.overlaps[<<x, y>>]
        IN  /\ SameWordCase(entry[x], entry[y]) =>
                  /\ Returned("revise", "True")
                  /\ entry[y][1] \notin Range(domains[x])
            /\ Len(entry[y]) > 1 =>
                  \A w \in Range(entry[x]) \cap Range(entry[y]) :
                      (o = NoOverlap
                         \/ w \in Supported(entry[x], entry[y], o[1], o[2]))
                      => w \in Range(domains[x])

\* The complete assignments over the initial word list that meet the
\* length, overlap and no-reuse constraints.
Solutions == { a \in [Vars -> Range(words)] : ValidComplete(a) }

\* C20: every word that a valid complete assignment gives to a variable
\* is still in that variable's domain, whatever enforce_node_consistency,
\* revise and ac3 have removed so far.
C20_PruningPreservesSolutions ==
    \A a \in Solutions : \A v \in Vars : a[v] \in Range(domains[v])

C20_Witness ==
    /\ Solutions # {}
    /\ prev.op = "enforce_node_consistency"
    /\ last.op = "ac3"
    /\ \E v \in Vars : Len(domains[v]) < Len(entry[v])

\* C15: assignment_complete(a) returns True iff every variable of the
\* puzzle is a key of a with a value other than None.
C15_AssignmentCompleteIff ==
    query.op = "assignment_complete" =>
        LET a == query.arg[1] IN
        /\ query.kind = "return"
        /\ query.val =
              Bool(DOMAIN a = Vars /\ \A v \in DOMAIN a : a[v] # None)

\* The partial assignment a meets the length, overlap and no-reuse
\* constraints among the variables it assigns.
ConsistentPartial(a) ==
    /\ \A v \in DOMAIN a : Len(a[v]) = crossword.length[v]
    /\ \A x, y \in DOMAIN a : x # y =>
          /\ a[x] # a[y]
          /\ crossword.overlaps[<<x, y>>] # NoOverlap =>
                SameChar(a[x], crossword.overlaps[<<x, y>>][1],
                         a[y], crossword.overlaps[<<x, y>>][2])

\* C16: consistent(a) returns, without raising, True iff every assigned
\* word has its variable's length, assigned neighbors agree at their
\* overlap and no word is assigned twice; unassigned neighbors are ignored.
C16_ConsistentIff ==
    query.op = "consistent" =>
        /\ query.kind = "return"
        /\ query.val = Bool(ConsistentPartial(query.arg[1]))

\* C17: when some variable is unassigned, select_unassigned_variable(a)
\* returns an unassigned variable of minimal domain size that has the most
\* neighbors among the unassigned variables of that size.  (Stated where
\* every unassigned variable still has a word, as during a search.)
C17_SelectMinimumRemaining ==
    (query.op = "select_unassigned_variable"
        /\ DOMAIN query.arg[1] # Vars
        /\ \A u \in Vars \ DOMAIN query.arg[1] : domains[u] # <<>>) =>
        LET unassigned == Vars \ DOMAIN query.arg[1]
            v == query.val
        IN  /\ query.kind = "return"
            /\ v \in unassigned
            /\ \A u \in unassigned :
                  /\ Len(domains[v]) <= Len(domains[u])
                  /\ Len(domains[u]) = Len(domains[v]) =>
                        Cardinality(neighbors(u)) <= Cardinality(neighbors(v))

\* The number of words in the domains of var's unassigned neighbors whose
\* character at the overlap differs from that of the word w of var.
RuledOut(var, a, w) ==
    Cardinality({ c \in Compared(var, a) :
        ~SameChar(w, crossword.overlaps[<<var, c[1]>>][1],
                  c[2], crossword.overlaps[<<var, c[1]>>][2]) })

\* C18: order_domain_values(var, a), called on the domains that
\* enforce_node_consistency has left, returns every word of var's domain
\* exactly once, in ascending order of the number of words it rules out in
\* the domains of var's unassigned neighbors.
C18_OrderLeastConstraining ==
    (query.op = "order_domain_values"
        /\ last.op = "enforce_node_consistency") =>
        LET var == query.arg[1]
            a == query.arg[2]
            val == query.val
        IN  /\ query.kind = "return"
            /\ Len(val) = Len(domains[var])
            /\ Range(val) = Range(domains[var])
            /\ \A i, j \in 1..Len(val) :
                  i < j => RuledOut(var, a, val[i]) <= RuledOut(var, a, val[j])

====
